---- MODULE Spec2Model ----
(***************************************************************************)
(* Model of the dashboard state store, the useDashboard hook               *)
(* (src/unnamed/part_010).  The hook keeps its state in React useState     *)
(* cells; the handlers it returns are closures created by the last render  *)
(* of the component, so a handler reads the values of that render          *)
(* (`closure`) while the functional updaters it queues read the live       *)
(* cells.  No updater reads a cell other than its own, so applying the     *)
(* queued updates in call order is what React computes at the next render. *)
(***************************************************************************)
EXTENDS Integers, Sequences, FiniteSets, TLC

\* ------------------------------------------------------------------ bounds
MaxTx == 3              \* transactions created in one run
MaxCallsPerTurn == 2    \* handler calls issued before the hook re-renders

\* ------------------------------------------------------------- data model
Fields ==
  {"selectedTimeRange", "selectedRevenueType", "selectedDepartment",
   "selectedMetric", "selectedIndustry", "selectedRegion"}

initialDashboardState ==
  [selectedTimeRange |-> "1Y", selectedRevenueType |-> "subscription",
   selectedDepartment |-> "all", selectedMetric |-> "revenue",
   selectedIndustry |-> "all", selectedRegion |-> "all"]

initialDatasets ==
  [revenue |-> << >>, customer |-> << >>, performance |-> << >>, geographic |-> << >>]

initialImportState ==
  [isImporting |-> FALSE, hasData |-> FALSE, error |-> "null",
   recordCounts |-> [revenue |-> 0, customer |-> 0, performance |-> 0, geographic |-> 0]]

filterDependencies ==
  << [trigger |-> "selectedRegion", reset |-> <<"selectedIndustry">>],
     [trigger |-> "selectedDepartment", reset |-> <<"selectedMetric">>] >>

\* The partial updates the callers of the model issue.
Updates ==
  { [selectedRegion |-> "Europe"],
    [selectedIndustry |-> "Technology"],
    [selectedDepartment |-> "Sales"],
    [selectedMetric |-> "growth_rate"],
    [selectedRegion |-> "Europe", selectedIndustry |-> "Technology"] }

\* Updates that name a trigger together with the field it resets, and two
\* that name no trigger.
CascadeUpdates ==
  { [selectedRegion |-> "Europe", selectedIndustry |-> "Technology"],
    [selectedDepartment |-> "Sales", selectedMetric |-> "growth_rate"],
    [selectedIndustry |-> "Finance"],
    [selectedMetric |-> "customer_count"] }

\* The updates issued while the listeners are under observation.
NotifyUpdates == { [selectedRegion |-> "Europe"] }

\* Snapshot names, the updates issued while snapshots are under observation,
\* the state another useDashboard instance of the page saves (every caller of
\* the hook has its own cells; localStorage is the one thing they share), and
\* a stored object that lacks fields.
SnapshotNames == {"x"}

SnapshotUpdates == { [selectedIndustry |-> "Technology"] }

OtherStoreStates ==
  { [initialDashboardState EXCEPT !.selectedDepartment = "Sales"] }

PartialSnapshot == [selectedRegion |-> "Europe"]

\* Imported workbooks, with the columns the hook reads.  The first has more
\* revenue rows than the 6 months of '6M', rows without department or region
\* and repeated values; the second has customers and no revenue.
RevenueRow(month, department, region) ==
  [month |-> month, department |-> department, region |-> region,
   product_line |-> "Cloud"]

ExcelFiles ==
  { [revenueData |-> << RevenueRow(1, "Sales", "Europe"), RevenueRow(2, "", "Asia"),
                        RevenueRow(3, "Sales", ""), RevenueRow(4, "Sales", "Europe"),
                        RevenueRow(5, "Sales", "Asia"), RevenueRow(6, "Engineering", "Europe"),
                        RevenueRow(7, "Sales", "Europe"), RevenueRow(8, "Sales", "Europe"),
                        RevenueRow(9, "Sales", "Asia") >>,
     customerData |-> << [industry |-> "Technology", region |-> "Europe"],
                         [industry |-> "Finance", region |-> "Americas"],
                         [industry |-> "Technology", region |-> "Asia"] >>,
     performanceData |-> << [employee_id |-> 1, department |-> "Sales"],
                            [employee_id |-> 2, department |-> "Marketing"] >>,
     geographicData |-> << [country |-> "France"], [country |-> "Japan"] >>],
    [revenueData |-> << >>,
     customerData |-> << [industry |-> "Technology", region |-> "Europe"] >>,
     performanceData |-> << [employee_id |-> 1, department |-> "Sales"] >>,
     geographicData |-> << [country |-> "France"] >>] }

\* The selections made while the derived views are under observation.
DataUpdates ==
  { [selectedTimeRange |-> "6M"],
    [selectedTimeRange |-> "All Time", selectedIndustry |-> "Technology"],
    [selectedDepartment |-> "Sales"],
    [selectedRegion |-> "Europe"] }

\* The chart whose useChartCallbacks instance is followed, and the updates
\* its clicks lead to (part_009, lines 74-79).
ChartId == "revenue-chart"

ChartClicks == { [selectedDepartment |-> "Sales"], [selectedDepartment |-> "Engineering"] }

\* Listener identifiers and the two behaviours a listener can have.
CallbackIds == {"chartA", "chartB", "chartC"}
Listeners == {"ok", "throws"}

\* ---------------------------------------------------------- pure functions
\* Variant: the fields the source lacks come from the defaults, not the target.
MergeOntoDefaults(target, source) ==
  [f \in DOMAIN target \cup DOMAIN source |->
     IF f \in DOMAIN source THEN source[f] ELSE initialDashboardState[f]]

\* Object.assign(target, source) / { ...target, ...source }
Merge(target, source) ==
  [f \in DOMAIN target \cup DOMAIN source |->
     IF f \in DOMAIN source THEN source[f] ELSE target[f]]

\* filterDependencies.find(dep => dep.trigger === key): index of the first
\* matching entry, 0 when there is none.
RECURSIVE FindDependency(_, _)
FindDependency(key, i) ==
  IF i > Len(filterDependencies) THEN 0
  ELSE IF filterDependencies[i].trigger = key THEN i
  ELSE FindDependency(key, i + 1)

\* Variant: a value the caller gave for a dependent field is kept.
RECURSIVE ApplyResetsKeepingCaller(_, _, _)
ApplyResetsKeepingCaller(finalUpdates, reset, i) ==
  IF i > Len(reset) THEN finalUpdates
  ELSE LET resetKey == reset[i]
           next == IF resetKey \in DOMAIN finalUpdates THEN finalUpdates
                   ELSE IF resetKey = "selectedMetric"
                     THEN Merge(finalUpdates, [selectedMetric |-> "revenue"])
                   ELSE IF resetKey = "selectedIndustry"
                     THEN Merge(finalUpdates, [selectedIndustry |-> "all"])
                   ELSE finalUpdates
       IN ApplyResetsKeepingCaller(next, reset, i + 1)

\* dependency.reset.forEach(resetKey => ...)
RECURSIVE ApplyResets(_, _, _)
ApplyResets(finalUpdates, reset, i) ==
  IF i > Len(reset) THEN finalUpdates
  ELSE LET resetKey == reset[i]
           next == IF resetKey = "selectedMetric"
                     THEN Merge(finalUpdates, [selectedMetric |-> "revenue"])
                   ELSE IF resetKey = "selectedIndustry"
                     THEN Merge(finalUpdates, [selectedIndustry |-> "all"])
                   ELSE finalUpdates
       IN ApplyResets(next, reset, i + 1)

\* Object.keys(updates).forEach(key => ...) over the keys still to visit;
\* finalUpdates starts as a copy of updates.
RECURSIVE ApplyDependencies(_, _)
ApplyDependencies(finalUpdates, keys) ==
  IF keys = {} THEN finalUpdates
  ELSE LET key == CHOOSE k \in keys : TRUE
           d == FindDependency(key, 1)
           next == IF d = 0 THEN finalUpdates
                   ELSE ApplyResets(finalUpdates, filterDependencies[d].reset, 1)
       IN ApplyDependencies(next, keys \ {key})

\* Variant: the caller's updates are used as given, cascades left for later.
ResolveUpdatesUnresolved(updates) == updates

ResolveUpdates(updates) == ApplyDependencies(updates, DOMAIN updates)

\* for (let i = 0; i <= previousIndex; i++) Object.assign(state, history[i].updates)
\* (the log is 0-based in the source and 1-based here: entry i is history[i + 1])
RECURSIVE Reconstruct(_, _, _, _)
Reconstruct(state, history, i, previousIndex) ==
  IF i > previousIndex THEN state
  ELSE Reconstruct(Merge(state, history[i + 1].updates), history, i + 1, previousIndex)

\* Variant: nothing is cut off.
SliceNothing(history, end) == history

\* history.slice(0, end)
Slice(history, end) ==
  SubSeq(history, 1, IF end > Len(history) THEN Len(history) ELSE end)

\* Map.prototype.set on an insertion-ordered Map: an existing key keeps its
\* position and takes the new value, a new key goes last.
MapSet(map, id, fn) ==
  IF \E i \in 1..Len(map) : map[i].id = id
    THEN [i \in 1..Len(map) |-> IF map[i].id = id THEN [id |-> id, fn |-> fn] ELSE map[i]]
    ELSE Append(map, [id |-> id, fn |-> fn])

\* new Map(prev) followed by delete(id)
MapDelete(map, id) ==
  SelectSeq(map, LAMBDA e : e.id # id)

\* The key order of a DashboardState object (lines 54-61).
FieldOrder ==
  << "selectedTimeRange", "selectedRevenueType", "selectedDepartment",
     "selectedMetric", "selectedIndustry", "selectedRegion" >>

\* JSON.stringify(state): the text, as the key/value pairs it spells out.
Stringify(state) ==
  [valid |-> TRUE,
   pairs |-> [i \in 1..Len(SelectSeq(FieldOrder, LAMBDA k : k \in DOMAIN state)) |->
                LET k == SelectSeq(FieldOrder, LAMBDA j : j \in DOMAIN state)[i]
                IN << k, state[k] >>]]

\* A text JSON.parse throws on.
CorruptText == [valid |-> FALSE, pairs |-> << >>]

\* JSON.parse(text) of a valid text: the object with the pairs as properties.
Parse(text) ==
  [k \in {text.pairs[i][1] : i \in 1..Len(text.pairs)} |->
     LET last == CHOOSE i \in 1..Len(text.pairs) :
                   /\ text.pairs[i][1] = k
                   /\ \A j \in (i + 1)..Len(text.pairs) : text.pairs[j][1] # k
     IN text.pairs[last][2]]

\* Variant: an entry that exists is kept.
PutIfAbsent(map, name, value) ==
  [n \in DOMAIN map \cup {name} |-> IF n \in DOMAIN map THEN map[n] ELSE value]

\* Map.prototype.set / localStorage.setItem on a map keyed by snapshot name
Put(map, name, value) ==
  [n \in DOMAIN map \cup {name} |-> IF n = name THEN value ELSE map[n]]

\* Variant: no try/catch around getItem and JSON.parse.
LoadFromStorageUncaught(storage, name, current) ==
  IF name \in DOMAIN storage
    THEN IF storage[name].valid
           THEN [result |-> "true", state |-> Parse(storage[name])]
           ELSE [result |-> "throws", state |-> current]
    ELSE [result |-> "false", state |-> current]

\* The try block of loadState (lines 327-336) and the return after it: what
\* the call returns and the state it sets, current when it sets none.
LoadFromStorage(storage, name, current) ==
  IF name \in DOMAIN storage
    THEN IF storage[name].valid
           THEN [result |-> "true", state |-> Parse(storage[name])]
           ELSE [result |-> "false", state |-> current]
    ELSE [result |-> "false", state |-> current]

\* The effect run once on mount (lines 408-425): every stored snapshot is
\* parsed into a new Map; one text that does not parse and the try block is
\* left before setSavedStates.
MountLoad(storage) ==
  IF \E n \in DOMAIN storage : ~storage[n].valid THEN << >>
  ELSE [n \in DOMAIN storage |-> Parse(storage[n])]

\* Variant: no try/catch, the first throwing listener ends the loop.
RECURSIVE InvokeCallbacksUncaught(_, _, _, _)
InvokeCallbacksUncaught(cbs, i, newState, prev) ==
  IF i > Len(cbs) THEN << >>
  ELSE << [id |-> cbs[i].id, state |-> newState, previous |-> prev,
           threw |-> (cbs[i].fn = "throws")] >>
       \o (IF cbs[i].fn = "throws" THEN << >>
           ELSE InvokeCallbacksUncaught(cbs, i + 1, newState, prev))

\* callbacks.forEach(callback => { try { callback(newState, prev) } catch {} })
RECURSIVE InvokeCallbacks(_, _, _, _)
InvokeCallbacks(cbs, i, newState, prev) ==
  IF i > Len(cbs) THEN << >>
  ELSE << [id |-> cbs[i].id, state |-> newState, previous |-> prev,
           threw |-> (cbs[i].fn = "throws")] >>
       \o InvokeCallbacks(cbs, i + 1, newState, prev)

\* [...new Set(xs)]: each value once, in the order of first occurrence;
\* UniqueFrom adds xs[i], xs[i + 1], ... to the values seen so far.
RECURSIVE UniqueFrom(_, _, _)
UniqueFrom(xs, i, seen) ==
  IF i > Len(xs) THEN seen
  ELSE IF \E j \in 1..Len(seen) : seen[j] = xs[i]
    THEN UniqueFrom(xs, i + 1, seen)
    ELSE UniqueFrom(xs, i + 1, Append(seen, xs[i]))

Unique(xs) == UniqueFrom(xs, 1, << >>)

\* xs.filter(Boolean) on strings: the empty string is dropped
FilterBoolean(xs) == SelectSeq(xs, LAMBDA v : v # "")

\* rows.map(d => d[column])
Column(rows, column) == [i \in 1..Len(rows) |-> rows[i][column]]

\* availableFilters (lines 201-225)
AvailableFilters(data) ==
  LET fromRevenue == Len(data.revenue) > 0
      fromCustomer == Len(data.customer) > 0
  IN [timeRange |-> << "6M", "1Y", "2Y", "All Time" >>,
      departments |->
        IF fromRevenue THEN FilterBoolean(Unique(Column(data.revenue, "department")))
        ELSE << >>,
      regions |->
        IF fromRevenue
          THEN FilterBoolean(Unique(Column(data.revenue, "region")
                                    \o Column(data.customer, "region")))
          ELSE << >>,
      productLines |->
        IF fromRevenue THEN FilterBoolean(Unique(Column(data.revenue, "product_line")))
        ELSE << >>,
      industries |->
        IF fromCustomer THEN FilterBoolean(Unique(Column(data.customer, "industry")))
        ELSE << >>]

\* state[field], undefined when the object has no such property
Selected(state, field) ==
  IF field \in DOMAIN state THEN state[field] ELSE "undefined"

\* rows.slice(-n): the last n rows, all of them when there are fewer
SliceLast(rows, n) ==
  IF Len(rows) <= n THEN rows ELSE SubSeq(rows, Len(rows) - n + 1, Len(rows))

\* Variant: the time range is cut from the raw revenue rows, ahead of the
\* department and region filters.
FilteredDataTimeFirst(data, state) ==
  LET department == Selected(state, "selectedDepartment")
      region == Selected(state, "selectedRegion")
      industry == Selected(state, "selectedIndustry")
      timeRange == Selected(state, "selectedTimeRange")
      monthsToInclude == IF timeRange = "6M" THEN 6 ELSE IF timeRange = "1Y" THEN 12 ELSE 24
      revenue0 == IF timeRange # "All Time" THEN SliceLast(data.revenue, monthsToInclude)
                  ELSE data.revenue
      revenue1 == IF department # "all"
                    THEN SelectSeq(revenue0, LAMBDA d : d.department = department)
                    ELSE revenue0
      performance1 == IF department # "all"
                        THEN SelectSeq(data.performance, LAMBDA d : d.department = department)
                        ELSE data.performance
      revenue2 == IF region # "all"
                    THEN SelectSeq(revenue1, LAMBDA d : d.region = region)
                    ELSE revenue1
      customer2 == IF region # "all"
                     THEN SelectSeq(data.customer, LAMBDA d : d.region = region)
                     ELSE data.customer
      customer3 == IF industry # "all"
                     THEN SelectSeq(customer2, LAMBDA d : d.industry = industry)
                     ELSE customer2
  IN [revenue |-> revenue2, customer |-> customer3,
      performance |-> performance1, geographic |-> data.geographic]

\* filteredData (lines 228-268)
FilteredData(data, state) ==
  LET department == Selected(state, "selectedDepartment")
      region == Selected(state, "selectedRegion")
      industry == Selected(state, "selectedIndustry")
      timeRange == Selected(state, "selectedTimeRange")
      revenue1 == IF department # "all"
                    THEN SelectSeq(data.revenue, LAMBDA d : d.department = department)
                    ELSE data.revenue
      performance1 == IF department # "all"
                        THEN SelectSeq(data.performance, LAMBDA d : d.department = department)
                        ELSE data.performance
      revenue2 == IF region # "all"
                    THEN SelectSeq(revenue1, LAMBDA d : d.region = region)
                    ELSE revenue1
      customer2 == IF region # "all"
                     THEN SelectSeq(data.customer, LAMBDA d : d.region = region)
                     ELSE data.customer
      customer3 == IF industry # "all"
                     THEN SelectSeq(customer2, LAMBDA d : d.industry = industry)
                     ELSE customer2
      monthsToInclude == IF timeRange = "6M" THEN 6 ELSE IF timeRange = "1Y" THEN 12 ELSE 24
      revenue4 == IF timeRange # "All Time" THEN SliceLast(revenue2, monthsToInclude)
                  ELSE revenue2
  IN [revenue |-> revenue4, customer |-> customer3,
      performance |-> performance1, geographic |-> data.geographic]

\* getFilterOptions (lines 271-290)
getFilterOptions(filterType, availableFilters) ==
  CASE filterType = "departments" -> << "all" >> \o availableFilters.departments
    [] filterType = "regions" -> << "all" >> \o availableFilters.regions
    [] filterType = "industries" -> << "all" >> \o availableFilters.industries
    [] filterType = "productLines" -> << "all" >> \o availableFilters.productLines
    [] filterType = "timeRange" -> availableFilters.timeRange
    [] filterType = "revenueType" -> << "subscription", "usage" >>
    [] filterType = "metrics" ->
         << "revenue", "customer_count", "performance_score", "growth_rate" >>
    [] OTHER -> << >>

\* What the store holds while the listeners run (lines 183-189): the updater
\* of setDashboardState has not returned yet (line 190), and the updaters of
\* setStateHistory and setCurrentHistoryIndex (lines 173-178) are only queued.
ObservedAt(invocations, state, history) ==
  [i \in 1..Len(invocations) |->
     [id |-> invocations[i].id, state |-> invocations[i].state,
      previous |-> invocations[i].previous, threw |-> invocations[i].threw,
      storeState |-> state, logLength |-> Len(history)]]

\* ------------------------------------------------------------------- state
VARIABLES
  datasets, importState,      \* useState cells, lines 101 and 103
  dashboardState,             \* line 102
  callbacks,                  \* line 106: insertion-ordered Map, as a sequence
  stateHistory,               \* line 107
  currentHistoryIndex,        \* line 108 (-1 .. length - 1 in the source's numbering)
  savedStates,                \* line 109: Map from snapshot name to state
  localStorage,               \* the browser's store, by snapshot name (the key
                              \* is `dashboard_state_${name}`): serialized text
  closure,                    \* the cell values captured by the last render
  pending,                    \* handler calls since the last render
  txCount,                    \* transactions created (ids and timestamps)
  invoked,                    \* listener invocations made by the last handler call
  lastCall,                   \* the last handler call: operation, argument, result
  scenario,                   \* where the run stands in the call patterns of section 8
  chart                       \* the useDashboard instance inside a chart's
                              \* useChartCallbacks (part_009, line 20), and the
                              \* schedule of that component's renders and effects

vars == << datasets, importState, dashboardState, callbacks, stateHistory,
           currentHistoryIndex, savedStates, localStorage, closure, pending,
           txCount, invoked, lastCall, scenario, chart >>

\* sameCallbacks: the Map the closures hold is the very object in the cell
\* (no setCallbacks since the render), so prev.set(...) writes through to it;
\* sameSavedStates likewise for the snapshot Map.  availableFilters and
\* filteredData are the useMemo values of the render (lines 201-268).
Cells ==
  [dashboardState |-> dashboardState, callbacks |-> callbacks,
   stateHistory |-> stateHistory, currentHistoryIndex |-> currentHistoryIndex,
   savedStates |-> savedStates, sameCallbacks |-> TRUE, sameSavedStates |-> TRUE,
   datasets |-> datasets, availableFilters |-> AvailableFilters(datasets),
   filteredData |-> FilteredData(datasets, dashboardState)]

\* lines 375-376, evaluated by the render that created the closures
canUndo == closure.currentHistoryIndex > 0
canRedo == closure.currentHistoryIndex < Len(closure.stateHistory) - 1

NoArg == [none |-> "none"]

Call(op, arg, result) ==
  [op |-> op, arg |-> arg, fresh |-> (pending = 0), result |-> result]

\* Bookkeeping of the call patterns the properties speak about (a fresh store,
\* every call in an event turn of its own unless stated otherwise):
\*   updates^M undos^K redos^J,  updates^M undos^K update,
\*   registrations^R update,  updates^M reset undo,
\*   (anything) save reset load,  (anything) save load.
\* "off" once the run has left all of them.  afterUpdates is the state the
\* pattern has to come back to; stored tells whether the save reached
\* localStorage.
ScenarioStart ==
  [phase |-> "start", updates |-> 0, undos |-> 0, redos |-> 0,
   afterUpdates |-> initialDashboardState, registered |-> << >>, stored |-> TRUE,
   name |-> "none"]

ScenarioOff == [ScenarioStart EXCEPT !.phase = "off"]

Advance(op, arg, newState) ==
  LET s == scenario
      fresh == pending = 0
  IN CASE op = "update" /\ fresh /\ s.phase \in {"start", "updates"} ->
            [s EXCEPT !.phase = "updates", !.updates = @ + 1, !.afterUpdates = newState]
       [] op = "update" /\ fresh /\ s.phase = "undos" /\ s.undos < s.updates ->
            [s EXCEPT !.phase = "branch"]
       [] op = "update" /\ fresh /\ s.phase = "registering" ->
            [s EXCEPT !.phase = "notified"]
       [] op = "undo" /\ fresh /\ s.phase \in {"updates", "undos"} /\ s.undos < s.updates ->
            [s EXCEPT !.phase = "undos", !.undos = @ + 1]
       [] op = "redo" /\ fresh /\ s.phase \in {"undos", "redos"} /\ s.redos < s.undos ->
            [s EXCEPT !.phase = "redos", !.redos = @ + 1]
       [] op = "reset" /\ fresh /\ s.phase \in {"start", "updates"} ->
            [s EXCEPT !.phase = "reset"]
       [] op = "undo" /\ fresh /\ s.phase = "reset" ->
            [s EXCEPT !.phase = "resetUndone"]
       [] op = "save" /\ fresh ->
            [ScenarioStart EXCEPT !.phase = "saved", !.afterUpdates = dashboardState,
                                  !.stored = arg.stored, !.name = arg.name]
       [] op = "reset" /\ fresh /\ s.phase = "saved" ->
            [s EXCEPT !.phase = "savedReset"]
       [] op = "load" /\ fresh /\ s.phase = "saved" /\ arg.name = s.name ->
            [s EXCEPT !.phase = "savedLoaded"]
       [] op = "load" /\ fresh /\ s.phase = "savedReset" /\ arg.name = s.name ->
            [s EXCEPT !.phase = "savedResetLoaded"]
       [] op = "register" /\ s.phase \in {"start", "registering"}
            /\ \A i \in 1..Len(s.registered) : s.registered[i] # arg.id ->
            [s EXCEPT !.phase = "registering", !.registered = Append(@, arg.id)]
       [] OTHER -> ScenarioOff

Track(op, arg, result, newState) ==
  /\ lastCall' = Call(op, arg, result)
  /\ scenario' = Advance(op, arg, newState)
  /\ pending' = pending + 1

\* The chart component after its first render, its effect not yet run.
\* firstMap is the Map of that render: handleChartInteraction has no
\* dependencies (part_009, line 69), so the handlers it reaches are those of
\* the first render for good.  cleanup: an earlier run of the effect left its
\* unregisterCallback behind.
ChartMounted ==
  [dashboardState |-> initialDashboardState, stateHistory |-> << >>,
   currentHistoryIndex |-> -1, callbacks |-> << >>, firstMap |-> << >>,
   txCount |-> 0, invoked |-> << >>,
   renderDue |-> FALSE, effectDue |-> TRUE, cleanup |-> FALSE]

Init ==
  /\ datasets = initialDatasets
  /\ importState = initialImportState
  /\ dashboardState = initialDashboardState
  /\ callbacks = << >>
  /\ stateHistory = << >>
  /\ currentHistoryIndex = -1
  /\ savedStates = << >>
  /\ localStorage = << >>
  /\ closure = Cells
  /\ pending = 0
  /\ txCount = 0
  /\ invoked = << >>
  /\ lastCall = [op |-> "none", arg |-> NoArg, fresh |-> TRUE, result |-> "void"]
  /\ scenario = ScenarioStart
  /\ chart = ChartMounted

\* ----------------------------------------------------------------- actions
NewTransaction(updates, source) ==
  [id |-> txCount + 1, timestamp |-> txCount + 1, updates |-> updates, source |-> source]

\* Variant: no try/catch around callback(newState, prev): the updater throws
\* after the log and the position were queued and before it returns newState.
updateDashboardStateUncaught(updates, source) ==
  LET prev == dashboardState
      finalUpdates == ResolveUpdates(updates)
      newState == Merge(prev, finalUpdates)
      transaction == NewTransaction(finalUpdates, source)
      thrown == \E i \in 1..Len(closure.callbacks) : closure.callbacks[i].fn = "throws"
  IN /\ txCount < MaxTx
     /\ pending < MaxCallsPerTurn
     /\ dashboardState' = IF thrown THEN prev ELSE newState
     /\ stateHistory' =
          Slice(stateHistory, closure.currentHistoryIndex + 1) \o << transaction >>
     /\ currentHistoryIndex' = currentHistoryIndex + 1
     /\ txCount' = txCount + 1
     /\ invoked' = ObservedAt(InvokeCallbacksUncaught(closure.callbacks, 1, newState, prev),
                              dashboardState, stateHistory)
     /\ Track("update", updates, IF thrown THEN "throws" ELSE "void", dashboardState')
     /\ UNCHANGED << chart, datasets, importState, callbacks, savedStates, localStorage, closure >>

updateDashboardState(updates, source) ==
  LET prev == dashboardState
      finalUpdates == ResolveUpdates(updates)
      newState == Merge(prev, finalUpdates)
      transaction == NewTransaction(finalUpdates, source)
  IN /\ txCount < MaxTx
     /\ pending < MaxCallsPerTurn
     /\ dashboardState' = newState
     /\ stateHistory' =
          Slice(stateHistory, closure.currentHistoryIndex + 1) \o << transaction >>
     /\ currentHistoryIndex' = currentHistoryIndex + 1
     /\ txCount' = txCount + 1
     /\ invoked' = ObservedAt(InvokeCallbacks(closure.callbacks, 1, newState, prev),
                              dashboardState, stateHistory)
     /\ Track("update", updates, "void", newState)
     /\ UNCHANGED << chart, datasets, importState, callbacks, savedStates, localStorage, closure >>

\* Variant: undo cuts the log at the position it moves to.
undoTruncating ==
  /\ pending < MaxCallsPerTurn
  /\ IF canUndo /\ closure.currentHistoryIndex - 1 < Len(closure.stateHistory)
       THEN LET previousIndex == closure.currentHistoryIndex - 1
                reconstructedState ==
                  Reconstruct(initialDashboardState, closure.stateHistory, 0, previousIndex)
            IN /\ dashboardState' = reconstructedState
               /\ currentHistoryIndex' = previousIndex
               /\ stateHistory' = Slice(stateHistory, previousIndex + 1)
       ELSE UNCHANGED << dashboardState, currentHistoryIndex, stateHistory >>
  /\ invoked' = << >>
  /\ Track("undo", NoArg, "void", dashboardState')
  /\ UNCHANGED << chart, datasets, importState, callbacks, savedStates, localStorage,
                  closure, txCount >>

undo ==
  /\ pending < MaxCallsPerTurn
  /\ IF canUndo /\ closure.currentHistoryIndex - 1 < Len(closure.stateHistory)
       THEN LET previousIndex == closure.currentHistoryIndex - 1
                reconstructedState ==
                  Reconstruct(initialDashboardState, closure.stateHistory, 0, previousIndex)
            IN /\ dashboardState' = reconstructedState
               /\ currentHistoryIndex' = previousIndex
       ELSE UNCHANGED << dashboardState, currentHistoryIndex >>
  /\ invoked' = << >>
  /\ Track("undo", NoArg, "void", dashboardState')
  /\ UNCHANGED << chart, datasets, importState, callbacks, stateHistory, savedStates, localStorage,
                  closure, txCount >>

\* Variant: the next transaction is merged onto the defaults, not the current state.
redoOntoDefaults ==
  /\ pending < MaxCallsPerTurn
  /\ IF canRedo
       THEN LET nextIndex == closure.currentHistoryIndex + 1
                transaction == closure.stateHistory[nextIndex + 1]
            IN /\ dashboardState' = Merge(initialDashboardState, transaction.updates)
               /\ currentHistoryIndex' = nextIndex
       ELSE UNCHANGED << dashboardState, currentHistoryIndex >>
  /\ invoked' = << >>
  /\ Track("redo", NoArg, "void", dashboardState')
  /\ UNCHANGED << chart, datasets, importState, callbacks, stateHistory, savedStates, localStorage,
                  closure, txCount >>

redo ==
  /\ pending < MaxCallsPerTurn
  /\ IF canRedo
       THEN LET nextIndex == closure.currentHistoryIndex + 1
                transaction == closure.stateHistory[nextIndex + 1]
            IN /\ dashboardState' = Merge(dashboardState, transaction.updates)
               /\ currentHistoryIndex' = nextIndex
       ELSE UNCHANGED << dashboardState, currentHistoryIndex >>
  /\ invoked' = << >>
  /\ Track("redo", NoArg, "void", dashboardState')
  /\ UNCHANGED << chart, datasets, importState, callbacks, stateHistory, savedStates, localStorage,
                  closure, txCount >>

\* Variant: the reset starts the log afresh.
resetToDefaultClearing ==
  LET transaction == NewTransaction(initialDashboardState, "reset")
  IN /\ txCount < MaxTx
     /\ pending < MaxCallsPerTurn
     /\ dashboardState' = initialDashboardState
     /\ stateHistory' = << transaction >>
     /\ currentHistoryIndex' = 0
     /\ txCount' = txCount + 1
     /\ invoked' = << >>
     /\ Track("reset", NoArg, "void", initialDashboardState)
     /\ UNCHANGED << chart, datasets, importState, callbacks, savedStates, localStorage, closure >>

resetToDefault ==
  LET transaction == NewTransaction(initialDashboardState, "reset")
  IN /\ txCount < MaxTx
     /\ pending < MaxCallsPerTurn
     /\ dashboardState' = initialDashboardState
     /\ stateHistory' = stateHistory \o << transaction >>
     /\ currentHistoryIndex' = currentHistoryIndex + 1
     /\ txCount' = txCount + 1
     /\ invoked' = << >>
     /\ Track("reset", NoArg, "void", initialDashboardState)
     /\ UNCHANGED << chart, datasets, importState, callbacks, savedStates, localStorage, closure >>

loadData(excelData) ==
  /\ pending < MaxCallsPerTurn
  /\ datasets' = [revenue |-> excelData.revenueData, customer |-> excelData.customerData,
                  performance |-> excelData.performanceData,
                  geographic |-> excelData.geographicData]
  /\ importState' = [isImporting |-> FALSE, hasData |-> TRUE, error |-> "null",
                     recordCounts |-> [revenue |-> Len(excelData.revenueData),
                                       customer |-> Len(excelData.customerData),
                                       performance |-> Len(excelData.performanceData),
                                       geographic |-> Len(excelData.geographicData)]]
  /\ invoked' = << >>
  /\ Track("loadData", NoArg, "void", dashboardState)
  /\ UNCHANGED << chart, dashboardState, callbacks, stateHistory, currentHistoryIndex, savedStates,
                  localStorage, closure, txCount >>

clearData ==
  /\ pending < MaxCallsPerTurn
  /\ datasets' = initialDatasets
  /\ dashboardState' = initialDashboardState
  /\ importState' = initialImportState
  /\ invoked' = << >>
  /\ Track("clearData", NoArg, "void", dashboardState')
  /\ UNCHANGED << chart, callbacks, stateHistory, currentHistoryIndex, savedStates, localStorage,
                  closure, txCount >>

registerCallback(id, callback) ==
  /\ pending < MaxCallsPerTurn
  /\ callbacks' = MapSet(callbacks, id, callback)
  /\ \/ closure' = [closure EXCEPT !.sameCallbacks = FALSE]
     \/ /\ closure.sameCallbacks
        /\ closure' = [closure EXCEPT !.callbacks = MapSet(@, id, callback),
                                      !.sameCallbacks = FALSE]
  /\ invoked' = << >>
  /\ Track("register", [id |-> id, fn |-> callback], "void", dashboardState)
  /\ UNCHANGED << chart, datasets, importState, dashboardState, stateHistory,
                  currentHistoryIndex, savedStates, localStorage, txCount >>

unregisterCallback(id) ==
  /\ pending < MaxCallsPerTurn
  /\ callbacks' = MapDelete(callbacks, id)
  /\ closure' = [closure EXCEPT !.sameCallbacks = FALSE]
  /\ invoked' = << >>
  /\ Track("unregister", [id |-> id], "void", dashboardState)
  /\ UNCHANGED << chart, datasets, importState, dashboardState, stateHistory,
                  currentHistoryIndex, savedStates, localStorage, txCount >>

\* Variant: the Map is written after setItem, inside the try block.
saveStateStorageFirst(name) ==
  /\ pending < MaxCallsPerTurn
  /\ \E stored \in BOOLEAN :
       /\ localStorage' = IF stored
                            THEN Put(localStorage, name, Stringify(closure.dashboardState))
                            ELSE localStorage
       /\ savedStates' = IF stored THEN Put(savedStates, name, closure.dashboardState)
                          ELSE savedStates
       /\ Track("save", [name |-> name, stored |-> stored], "void", dashboardState)
  /\ closure' = [closure EXCEPT !.sameSavedStates = FALSE]
  /\ invoked' = << >>
  /\ UNCHANGED << chart, datasets, importState, dashboardState, callbacks, stateHistory,
                  currentHistoryIndex, txCount >>

saveState(name) ==
  /\ pending < MaxCallsPerTurn
  /\ savedStates' = Put(savedStates, name, closure.dashboardState)
  /\ \/ closure' = [closure EXCEPT !.sameSavedStates = FALSE]
     \/ /\ closure.sameSavedStates
        /\ closure' = [closure EXCEPT
                         !.savedStates = Put(@, name, closure.dashboardState),
                         !.sameSavedStates = FALSE]
  /\ \E stored \in BOOLEAN :
       /\ localStorage' = IF stored
                            THEN Put(localStorage, name, Stringify(closure.dashboardState))
                            ELSE localStorage
       /\ Track("save", [name |-> name, stored |-> stored], "void", dashboardState)
  /\ invoked' = << >>
  /\ UNCHANGED << chart, datasets, importState, dashboardState, callbacks, stateHistory,
                  currentHistoryIndex, txCount >>

\* Variant: a miss puts the defaults back.
loadStateResettingOnMiss(name) ==
  /\ pending < MaxCallsPerTurn
  /\ IF name \in DOMAIN closure.savedStates
       THEN /\ dashboardState' = closure.savedStates[name]
            /\ Track("load", [name |-> name], "true", closure.savedStates[name])
       ELSE LET loaded == LoadFromStorage(localStorage, name, initialDashboardState)
            IN /\ dashboardState' = loaded.state
               /\ Track("load", [name |-> name], loaded.result, loaded.state)
  /\ invoked' = << >>
  /\ UNCHANGED << chart, datasets, importState, callbacks, stateHistory, currentHistoryIndex,
                  savedStates, localStorage, closure, txCount >>

loadState(name) ==
  /\ pending < MaxCallsPerTurn
  /\ IF name \in DOMAIN closure.savedStates
       THEN /\ dashboardState' = closure.savedStates[name]
            /\ Track("load", [name |-> name], "true", closure.savedStates[name])
       ELSE LET loaded == LoadFromStorage(localStorage, name, dashboardState)
            IN /\ dashboardState' = loaded.state
               /\ Track("load", [name |-> name], loaded.result, loaded.state)
  /\ invoked' = << >>
  /\ UNCHANGED << chart, datasets, importState, callbacks, stateHistory, currentHistoryIndex,
                  savedStates, localStorage, closure, txCount >>

\* saveState of another useDashboard instance of the page (line 312): only
\* localStorage is shared with it.
otherStoreSaves(name, state) ==
  /\ localStorage' = Put(localStorage, name, Stringify(state))
  /\ UNCHANGED << chart, datasets, importState, dashboardState, callbacks, stateHistory,
                  currentHistoryIndex, savedStates, closure, pending, txCount,
                  invoked, lastCall, scenario >>

\* The component function runs again: every closure is rebuilt from the cells.
Render ==
  /\ pending > 0
  /\ closure' = Cells
  /\ pending' = 0
  /\ UNCHANGED << chart, datasets, importState, dashboardState, callbacks, stateHistory,
                  currentHistoryIndex, savedStates, localStorage, txCount, invoked, lastCall,
                  scenario >>

DoUpdate == \E u \in Updates : updateDashboardState(u, "test")

Next ==
  \/ DoUpdate
  \/ undo
  \/ redo
  \/ resetToDefault
  \/ clearData
  \/ Render

Spec == Init /\ [][Next]_vars

DoRegister == \E id \in CallbackIds, fn \in Listeners : registerCallback(id, fn)

DoUnregister == \E id \in CallbackIds : unregisterCallback(id)

DoNotify == \E u \in NotifyUpdates : updateDashboardState(u, "test")

\* The store driven by its listeners' owners: registrations and updates only.
NextFanout ==
  \/ DoRegister
  \/ DoUnregister
  \/ DoNotify
  \/ Render

SpecFanout == Init /\ [][NextFanout]_vars

\* What localStorage can hold when the hook mounts: nothing, a snapshot an
\* earlier session saved, an object lacking fields, a text that does not parse.
InitialStorages ==
  { << >>,
    [n \in SnapshotNames |-> Stringify([initialDashboardState EXCEPT !.selectedMetric = "growth_rate"])],
    [n \in SnapshotNames |-> Stringify(PartialSnapshot)],
    [n \in SnapshotNames |-> CorruptText] }

\* The store after mounting over a localStorage that is not empty.
InitSnapshot ==
  /\ datasets = initialDatasets
  /\ importState = initialImportState
  /\ dashboardState = initialDashboardState
  /\ callbacks = << >>
  /\ stateHistory = << >>
  /\ currentHistoryIndex = -1
  /\ localStorage \in InitialStorages
  /\ savedStates = MountLoad(localStorage)
  /\ closure = Cells
  /\ pending = 0
  /\ txCount = 0
  /\ invoked = << >>
  /\ lastCall = [op |-> "none", arg |-> NoArg, fresh |-> TRUE, result |-> "void"]
  /\ scenario = ScenarioStart
  /\ chart = ChartMounted

DoSnapshotUpdate == \E u \in SnapshotUpdates : updateDashboardState(u, "test")

DoSaveState == \E name \in SnapshotNames : saveState(name)

DoLoadState == \E name \in SnapshotNames : loadState(name)

DoOtherStoreSaves ==
  \E name \in SnapshotNames, state \in OtherStoreStates : otherStoreSaves(name, state)

\* The store driven through its snapshot operations.
NextSnapshot ==
  \/ DoSnapshotUpdate
  \/ resetToDefault
  \/ DoSaveState
  \/ DoLoadState
  \/ DoOtherStoreSaves
  \/ Render

SpecSnapshot == InitSnapshot /\ [][NextSnapshot]_vars

DoCascadeUpdate == \E u \in CascadeUpdates : updateDashboardState(u, "test")

\* The store driven by updates that meet the cascade table.
NextCascade ==
  \/ DoCascadeUpdate
  \/ undo
  \/ Render

SpecCascade == Init /\ [][NextCascade]_vars

DoLoadData == \E excelData \in ExcelFiles : loadData(excelData)

DoDataUpdate == \E u \in DataUpdates : updateDashboardState(u, "test")

\* The store as the filter controls and the charts use it: data is imported
\* or cleared, selections are made, the derived views are read.
NextData ==
  \/ DoLoadData
  \/ DoDataUpdate
  \/ clearData
  \/ Render

SpecData == Init /\ [][NextData]_vars

\* The effect of useChartCallbacks (part_009, lines 25-43): the cleanup of
\* the previous run, then registerCallback; each is a setCallbacks with a new
\* Map, so the component is rendered again.
chartEffect ==
  /\ chart.effectDue /\ ~chart.renderDue
  /\ chart' = [chart EXCEPT
       !.callbacks = MapSet(IF chart.cleanup THEN MapDelete(@, ChartId) ELSE @, ChartId, "ok"),
       !.firstMap = IF chart.cleanup THEN @ ELSE MapSet(@, ChartId, "ok"),
       !.cleanup = TRUE, !.effectDue = FALSE, !.renderDue = TRUE]
  /\ UNCHANGED << datasets, importState, dashboardState, callbacks, stateHistory,
                  currentHistoryIndex, savedStates, localStorage, closure, pending, txCount,
                  invoked, lastCall, scenario >>

\* A render of the chart component: useDashboard returns a new object
\* (part_010, lines 427-452), which is a dependency of the effect.
chartRender ==
  /\ chart.renderDue
  /\ chart' = [chart EXCEPT !.renderDue = FALSE, !.effectDue = TRUE]
  /\ UNCHANGED << datasets, importState, dashboardState, callbacks, stateHistory,
                  currentHistoryIndex, savedStates, localStorage, closure, pending, txCount,
                  invoked, lastCall, scenario >>

\* handleChartInteraction({type: 'click', ...}) (part_009, lines 46-79): the
\* updateDashboardState of the chart's own instance, first render's closure
\* (currentHistoryIndex -1, callbacks the first Map).
chartInteraction(updates) ==
  LET prev == chart.dashboardState
      finalUpdates == ResolveUpdates(updates)
      newState == Merge(prev, finalUpdates)
      transaction == [id |-> chart.txCount + 1, timestamp |-> chart.txCount + 1,
                      updates |-> finalUpdates, source |-> "chart_click"]
  IN /\ chart.txCount < MaxTx
     /\ chart' = [chart EXCEPT
          !.dashboardState = newState,
          !.stateHistory = Slice(@, -1 + 1) \o << transaction >>,
          !.currentHistoryIndex = @ + 1,
          !.txCount = @ + 1,
          !.invoked = InvokeCallbacks(chart.firstMap, 1, newState, prev),
          !.renderDue = TRUE]
     /\ UNCHANGED << datasets, importState, dashboardState, callbacks, stateHistory,
                     currentHistoryIndex, savedStates, localStorage, closure, pending,
                     txCount, invoked, lastCall, scenario >>

DoChartInteraction == \E u \in ChartClicks : chartInteraction(u)

\* The other component of the page registers its listener.
DoRegisterPanel == registerCallback("chartA", "ok")

\* A page with a component that calls useDashboard() and a chart that calls
\* useChartCallbacks (e.g. EnhancedStateDemo, lines 7-8).
NextChart ==
  \/ DoRegisterPanel
  \/ DoNotify
  \/ Render
  \/ DoChartInteraction
  \/ chartEffect
  \/ chartRender

SpecChart == Init /\ [][NextChart]_vars

\* React performs every render it has scheduled and runs every effect whose
\* dependencies changed.
SpecChartFair == SpecChart /\ WF_vars(chartRender) /\ WF_vars(chartEffect)

\* The history operations of a store that has listeners.
NextHistoryFanout ==
  \/ DoRegister
  \/ DoNotify
  \/ undo
  \/ redo
  \/ Render

SpecHistoryFanout == Init /\ [][NextHistoryFanout]_vars

\* ------------------------------------------------------------- properties
\* The state the log stands for at position index: the defaults folded with
\* the updates of entries 0..index (as far as the log reaches).
ReplayTo(history, index) ==
  Reconstruct(initialDashboardState, history, 0,
              IF index > Len(history) - 1 THEN Len(history) - 1 ELSE index)

\* A step that is a call of the handler op.
IsCall(op) == pending' = pending + 1 /\ lastCall'.op = op

\* The cascade table written out: what a call with updates u has to record.
CascadeResolved(u) ==
  [f \in DOMAIN u
          \cup (IF "selectedRegion" \in DOMAIN u THEN {"selectedIndustry"} ELSE {})
          \cup (IF "selectedDepartment" \in DOMAIN u THEN {"selectedMetric"} ELSE {}) |->
     IF f = "selectedIndustry" /\ "selectedRegion" \in DOMAIN u THEN "all"
     ELSE IF f = "selectedMetric" /\ "selectedDepartment" \in DOMAIN u THEN "revenue"
     ELSE u[f]]

LastTransaction == stateHistory[Len(stateHistory)]

\* C1: N updates on a fresh store, N undo calls, then N redo calls (each in
\* its own event turn) leave dashboardState equal to the state right after
\* the N-th update.
C1_ReplayDeterminism ==
  (scenario.phase = "redos" /\ scenario.undos = scenario.updates
     /\ scenario.redos = scenario.updates)
  => dashboardState = scenario.afterUpdates

C1_Witness ==
  /\ scenario.phase = "redos"
  /\ scenario.updates = 3 /\ scenario.undos = 3 /\ scenario.redos = 3
  /\ currentHistoryIndex = 2
  /\ dashboardState.selectedDepartment = "Sales"
  /\ dashboardState.selectedRegion = "Europe"

\* C2: in every reachable state dashboardState is the fold of the default
\* state with the updates of stateHistory[0..currentHistoryIndex] (the
\* default state itself when the index is before the first entry).
\* Checked operation by operation: a call made in its own event turn from a
\* state in which this holds leads to a state in which it holds.
StateIsReplayOfLog ==
  /\ currentHistoryIndex <= Len(stateHistory) - 1
  /\ dashboardState = ReplayTo(stateHistory, currentHistoryIndex)

C2_StateIsReplayOfLog ==
  [][ (pending = 0 /\ StateIsReplayOfLog) => StateIsReplayOfLog' ]_vars

\* C3: M updates on a fresh store, K < M undo calls, then one new update:
\* canRedo is false and the log holds (M - K) + 1 transactions, the new one last.
C3_TruncateOnBranch ==
  scenario.phase = "branch" =>
    /\ Len(stateHistory) = (scenario.updates - scenario.undos) + 1
    /\ currentHistoryIndex = Len(stateHistory) - 1
    /\ LastTransaction.id = txCount
    /\ LastTransaction.updates = CascadeResolved(lastCall.arg)
    /\ pending = 0 => ~canRedo

C3_Witness ==
  /\ scenario.phase = "branch"
  /\ scenario.updates = 2 /\ scenario.undos = 1
  /\ pending = 0
  /\ Len(closure.stateHistory) = 2
  /\ closure.stateHistory[2].id = 3

\* C4: after exactly one updateDashboardState({selectedRegion: "Europe"},
\* "test") on a fresh store, canUndo is true and canRedo is false.
C4_FirstUpdateUndoable ==
  (/\ scenario.phase = "updates" /\ scenario.updates = 1
   /\ lastCall.op = "update" /\ lastCall.arg = [selectedRegion |-> "Europe"]
   /\ pending = 0)
  => canUndo /\ ~canRedo

\* C5: undo is a no-op only when the position is before the first
\* transaction; from any other position it moves the position back by one
\* and sets dashboardState to the replay of the log through the new position.
C5_UndoFromEveryPosition ==
  [][ (IsCall("undo") /\ pending = 0 /\ currentHistoryIndex <= Len(stateHistory) - 1) =>
        IF currentHistoryIndex = -1
          THEN UNCHANGED << dashboardState, currentHistoryIndex >>
          ELSE /\ currentHistoryIndex' = currentHistoryIndex - 1
               /\ dashboardState' = ReplayTo(stateHistory, currentHistoryIndex - 1) ]_vars

\* C6: resetToDefault called while the position is not at the end of the log
\* discards the transactions after the position, leaves the reset
\* transaction as the last entry with the position on it, and canRedo false.
C6_ResetTruncates ==
  [][ (IsCall("reset") /\ pending = 0 /\ currentHistoryIndex < Len(stateHistory) - 1) =>
        /\ Len(stateHistory') = currentHistoryIndex + 2
        /\ stateHistory'[Len(stateHistory')].source = "reset"
        /\ currentHistoryIndex' = Len(stateHistory') - 1 ]_vars

\* C7: every updateDashboardState call whose updates contain selectedRegion
\* leaves selectedIndustry = "all", and every call whose updates contain
\* selectedDepartment leaves selectedMetric = "revenue", whatever the prior
\* values, also when the same update is repeated.
C7_CascadeResets ==
  [][ IsCall("update") =>
        /\ "selectedRegion" \in DOMAIN lastCall'.arg
             => dashboardState'.selectedIndustry = "all"
        /\ "selectedDepartment" \in DOMAIN lastCall'.arg
             => dashboardState'.selectedMetric = "revenue" ]_vars

\* industry set, then the same region update twice in a row
C7_Witness ==
  /\ scenario.phase = "updates" /\ scenario.updates = 3
  /\ Len(stateHistory) = 3
  /\ stateHistory[1].updates = [selectedIndustry |-> "Technology"]
  /\ stateHistory[2].updates = [selectedRegion |-> "Europe", selectedIndustry |-> "all"]
  /\ stateHistory[3].updates = [selectedRegion |-> "Europe", selectedIndustry |-> "all"]
  /\ lastCall.arg = [selectedRegion |-> "Europe"]
  /\ dashboardState.selectedIndustry = "all"

\* C8 as stated: updateDashboardState({selectedRegion: "Europe"}) leaves
\* every field other than selectedRegion at its prior value.
C8_OnlyRegionChanges ==
  [][ (IsCall("update") /\ lastCall'.arg = [selectedRegion |-> "Europe"]) =>
        \A f \in Fields \ {"selectedRegion"} : dashboardState'[f] = dashboardState[f] ]_vars

\* C8 amended: updateDashboardState({selectedRegion: "Europe"}) sets
\* selectedRegion to "Europe" and selectedIndustry to "all" and leaves every
\* other field at its prior value.
C8_RegionAndCascadeOnly ==
  [][ (IsCall("update") /\ lastCall'.arg = [selectedRegion |-> "Europe"]) =>
        /\ dashboardState'.selectedRegion = "Europe"
        /\ dashboardState'.selectedIndustry = "all"
        /\ DOMAIN dashboardState' = Fields
        /\ \A f \in Fields \ {"selectedRegion", "selectedIndustry"} :
             dashboardState'[f] = dashboardState[f] ]_vars

C8_Witness ==
  /\ scenario.phase = "updates" /\ scenario.updates = 3
  /\ lastCall.arg = [selectedRegion |-> "Europe"]
  /\ \E i \in 1..2 : stateHistory[i].updates = [selectedIndustry |-> "Technology"]
  /\ dashboardState.selectedMetric = "growth_rate"
  /\ dashboardState.selectedIndustry = "all"

\* C9: the transaction an updateDashboardState call records holds the
\* cascade-resolved updates; the committed state is the prior state with
\* exactly those fields overwritten, so a log that replayed to the prior
\* state replays to the committed state.
C9_RecordedUpdatesResolved ==
  [][ IsCall("update") =>
        LET tx == stateHistory'[Len(stateHistory')]
        IN /\ tx.updates = CascadeResolved(lastCall'.arg)
           /\ \A f \in Fields :
                dashboardState'[f] =
                  IF f \in DOMAIN tx.updates THEN tx.updates[f] ELSE dashboardState[f]
           /\ (/\ pending = 0
               /\ currentHistoryIndex <= Len(stateHistory) - 1
               /\ dashboardState = ReplayTo(stateHistory, currentHistoryIndex))
              => dashboardState' = ReplayTo(stateHistory', currentHistoryIndex') ]_vars

C9_Witness ==
  /\ lastCall.op = "update" /\ lastCall.fresh
  /\ lastCall.arg = [selectedRegion |-> "Europe"]
  /\ Len(stateHistory) = 2 /\ currentHistoryIndex = 1
  /\ stateHistory[1].updates = [selectedIndustry |-> "Technology"]
  /\ LastTransaction.updates = [selectedRegion |-> "Europe", selectedIndustry |-> "all"]
  /\ dashboardState = ReplayTo(stateHistory, 1)

\* C10: with listeners registered under 3 distinct ids, one update invokes
\* each of them exactly once, in the order of registration, also when the
\* second listener throws.
C10_CallbackFanOut ==
  (scenario.phase = "notified" /\ Len(scenario.registered) = 3) =>
    /\ Len(invoked) = 3
    /\ \A i \in 1..3 : invoked[i].id = scenario.registered[i]

C10_Witness ==
  /\ scenario.phase = "notified" /\ Len(scenario.registered) = 3
  /\ Len(invoked) = 3
  /\ ~invoked[1].threw /\ invoked[2].threw /\ ~invoked[3].threw
  /\ invoked[3].state.selectedRegion = "Europe"

\* C11: saveState("x") in a reachable state S, then resetToDefault(), then
\* loadState("x"), each in its own event turn: loadState returns true and
\* dashboardState equals S.
C11_SnapshotRoundTrip ==
  scenario.phase = "savedResetLoaded" =>
    /\ lastCall.result = "true"
    /\ dashboardState = scenario.afterUpdates

C11_Witness ==
  /\ scenario.phase = "savedResetLoaded"
  /\ scenario.afterUpdates = [initialDashboardState EXCEPT !.selectedIndustry = "Technology"]
  /\ dashboardState = scenario.afterUpdates
  /\ Len(stateHistory) = 2
  /\ localStorage # << >> /\ Parse(localStorage[scenario.name]) # scenario.afterUpdates

\* C12: in every reachable state each of the six DashboardState fields holds
\* a value; no operation, loadState of a persisted snapshot included, leaves
\* the state an incomplete object.
C12_EveryFieldDefined == DOMAIN dashboardState = Fields

\* C13: an undo or redo that is not a no-op invokes every registered
\* callback with (recomputed state, state before the call).
C13_UndoRedoNotify ==
  [][ ((IsCall("undo") \/ IsCall("redo")) /\ pending = 0
         /\ currentHistoryIndex' # currentHistoryIndex) =>
        /\ Len(invoked') = Len(callbacks)
        /\ \A i \in 1..Len(invoked') :
             /\ invoked'[i].id = callbacks[i].id
             /\ invoked'[i].state = dashboardState'
             /\ invoked'[i].previous = dashboardState ]_vars

\* C14: undo and redo leave the transaction log as it is, entry by entry;
\* of the store's cells only the position and the current state change.
C14_UndoRedoKeepLog ==
  [][ (IsCall("undo") \/ IsCall("redo")) =>
        /\ Len(stateHistory') = Len(stateHistory)
        /\ \A i \in 1..Len(stateHistory) :
             /\ stateHistory'[i].id = stateHistory[i].id
             /\ stateHistory'[i].timestamp = stateHistory[i].timestamp
             /\ stateHistory'[i].updates = stateHistory[i].updates
             /\ stateHistory'[i].source = stateHistory[i].source
        /\ UNCHANGED << callbacks, savedStates, localStorage, datasets, importState >> ]_vars

C14_Witness ==
  /\ scenario.phase = "redos" /\ scenario.updates = 3
  /\ scenario.undos = 2 /\ scenario.redos = 1
  /\ Len(stateHistory) = 3 /\ currentHistoryIndex = 1
  /\ stateHistory[3].id = 3

\* C15: a redo that is not a no-op produces the replay of the log through
\* the new position, after any interleaving of the operations.
C15_RedoIsReplay ==
  [][ (IsCall("redo") /\ pending = 0 /\ canRedo) =>
        dashboardState' = ReplayTo(stateHistory, currentHistoryIndex + 1) ]_vars

\* C16: after updates on a fresh store ending in S, resetToDefault adds one
\* entry (the reset transaction) to the log and keeps the earlier ones, and
\* one undo then restores S.
C16_ResetIsUndoable ==
  /\ scenario.phase \in {"reset", "resetUndone"} =>
       /\ Len(stateHistory) = scenario.updates + 1
       /\ LastTransaction.source = "reset"
       /\ \A i \in 1..scenario.updates : stateHistory[i].source = "test"
  /\ scenario.phase = "resetUndone" => dashboardState = scenario.afterUpdates

C16_Witness ==
  /\ scenario.phase = "resetUndone" /\ scenario.updates = 2
  /\ currentHistoryIndex = 1 /\ Len(stateHistory) = 3
  /\ dashboardState.selectedRegion = "Europe"
  /\ dashboardState.selectedDepartment = "Sales"

\* C17: loadState of a name that is neither in the snapshot Map nor in
\* localStorage returns false and changes neither the state, the log, the
\* position nor the Map.
C17_LoadMissingName ==
  [][ (/\ IsCall("load")
       /\ lastCall'.arg.name \notin DOMAIN savedStates
       /\ lastCall'.arg.name \notin DOMAIN localStorage) =>
        /\ lastCall'.result = "false"
        /\ UNCHANGED << dashboardState, stateHistory, currentHistoryIndex, savedStates >> ]_vars

C17_Witness ==
  /\ lastCall.op = "load" /\ lastCall.result = "false"
  /\ savedStates = << >> /\ localStorage = << >>
  /\ dashboardState = [initialDashboardState EXCEPT !.selectedIndustry = "Technology"]
  /\ currentHistoryIndex = 0

\* C18: loadState of a name that only localStorage holds returns true, makes
\* the persisted snapshot the current state and puts it into the snapshot Map.
C18_LoadPopulatesMemory ==
  [][ (/\ IsCall("load") /\ pending = 0
       /\ lastCall'.arg.name \notin DOMAIN savedStates
       /\ lastCall'.arg.name \in DOMAIN localStorage
       /\ localStorage[lastCall'.arg.name].valid) =>
        LET name == lastCall'.arg.name
        IN /\ lastCall'.result = "true"
           /\ dashboardState' = Parse(localStorage[name])
           /\ name \in DOMAIN savedStates'
           /\ savedStates'[name] = Parse(localStorage[name]) ]_vars

\* C19: with a text that does not parse stored under the name, and the name
\* not in the Map, loadState returns false (it does not throw) and leaves
\* dashboardState as it was.
C19_LoadCorruptSnapshot ==
  [][ (/\ IsCall("load")
       /\ lastCall'.arg.name \notin DOMAIN savedStates
       /\ lastCall'.arg.name \in DOMAIN localStorage
       /\ ~localStorage[lastCall'.arg.name].valid) =>
        /\ lastCall'.result = "false"
        /\ dashboardState' = dashboardState ]_vars

C19_Witness ==
  /\ lastCall.op = "load" /\ lastCall.result = "false"
  /\ savedStates = << >>
  /\ localStorage = [n \in SnapshotNames |-> CorruptText]
  /\ dashboardState = [initialDashboardState EXCEPT !.selectedIndustry = "Technology"]

\* C20: a saveState whose localStorage write fails returns normally and the
\* snapshot Map holds the current state under the name, so that the next
\* loadState of the name returns true.
C20_SaveSurvivesWriteFailure ==
  /\ (scenario.phase = "saved" /\ ~scenario.stored) =>
       /\ lastCall.result = "void"
       /\ scenario.name \in DOMAIN savedStates
       /\ savedStates[scenario.name] = scenario.afterUpdates
  /\ (scenario.phase = "savedLoaded" /\ ~scenario.stored) =>
       /\ lastCall.result = "true"
       /\ dashboardState = scenario.afterUpdates

C20_Witness ==
  /\ scenario.phase = "savedLoaded" /\ ~scenario.stored
  /\ localStorage = << >>
  /\ lastCall.op = "load" /\ lastCall.result = "true"
  /\ dashboardState = [initialDashboardState EXCEPT !.selectedIndustry = "Technology"]

\* C21: an update whose notification meets a throwing listener returns
\* normally, and commits the new state, appends its transaction and advances
\* the position as an update without listeners does.
C21_ThrowingListenerIsolated ==
  [][ (/\ IsCall("update")
       /\ \E i \in 1..Len(closure.callbacks) : closure.callbacks[i].fn = "throws") =>
        /\ lastCall'.result = "void"
        /\ dashboardState' = Merge(dashboardState, CascadeResolved(lastCall'.arg))
        /\ stateHistory' # << >>
        /\ stateHistory'[Len(stateHistory')].updates = CascadeResolved(lastCall'.arg)
        /\ stateHistory'[Len(stateHistory')].id = txCount + 1
        /\ currentHistoryIndex' = currentHistoryIndex + 1 ]_vars

C21_Witness ==
  /\ lastCall.op = "update" /\ lastCall.result = "void"
  /\ Len(invoked) = 2 /\ invoked[1].threw /\ ~invoked[2].threw
  /\ dashboardState.selectedRegion = "Europe"
  /\ Len(stateHistory) = 1 /\ currentHistoryIndex = 0

\* C22: the listeners of an update run once the new state is the store's
\* state and the transaction is in the log, and each receives
\* (committed state, state before the call).
C22_NotifyAfterCommit ==
  [][ IsCall("update") =>
        \A i \in 1..Len(invoked') :
          /\ invoked'[i].state = dashboardState'
          /\ invoked'[i].previous = dashboardState
          /\ invoked'[i].storeState = dashboardState'
          /\ invoked'[i].logLength = Len(stateHistory') ]_vars

\* C23: the registry holds one listener per id, and an update invokes only
\* listeners the registry holds at the time of the call: not one replaced by
\* a later registerCallback of its id, not one removed by unregisterCallback.
C23_OnlyRegisteredInvoked ==
  [][ /\ \A i, j \in 1..Len(callbacks') :
           callbacks'[i].id = callbacks'[j].id => i = j
      /\ IsCall("update") =>
           \A i \in 1..Len(invoked') :
             \E j \in 1..Len(callbacks) :
               /\ callbacks[j].id = invoked'[i].id
               /\ (callbacks[j].fn = "throws") = invoked'[i].threw ]_vars

\* C24: two updateDashboardState calls issued in one event turn leave both
\* transactions in the log in call order, the position on the second one and
\* a state that holds both updates.
C24_BackToBackUpdates ==
  [][ (IsCall("update") /\ pending = 1 /\ lastCall.op = "update") =>
        LET n == Len(stateHistory')
        IN /\ n >= 2
           /\ stateHistory'[n - 1].id = txCount
           /\ stateHistory'[n - 1].updates = CascadeResolved(lastCall.arg)
           /\ stateHistory'[n].id = txCount + 1
           /\ stateHistory'[n].updates = CascadeResolved(lastCall'.arg)
           /\ currentHistoryIndex' = n - 1
           /\ dashboardState' =
                Merge(Merge(closure.dashboardState, CascadeResolved(lastCall.arg)),
                      CascadeResolved(lastCall'.arg)) ]_vars

\* C27: in every reachable state -1 <= currentHistoryIndex <= length of the
\* log - 1, calls sharing one render's closure included.
C27_IndexWithinLog ==
  /\ -1 <= currentHistoryIndex
  /\ currentHistoryIndex <= Len(stateHistory) - 1

\* C28: an update that names a trigger and gives a value for the field the
\* trigger resets commits, and records, the reset value: selectedIndustry
\* 'all' with selectedRegion, selectedMetric 'revenue' with selectedDepartment.
C28_CascadeOverridesCaller ==
  [][ IsCall("update") =>
        LET u == lastCall'.arg
            t == stateHistory'[Len(stateHistory')].updates
        IN /\ {"selectedRegion", "selectedIndustry"} \subseteq DOMAIN u =>
                /\ dashboardState'.selectedIndustry = "all"
                /\ t.selectedIndustry = "all"
                /\ dashboardState'.selectedRegion = u.selectedRegion
           /\ {"selectedDepartment", "selectedMetric"} \subseteq DOMAIN u =>
                /\ dashboardState'.selectedMetric = "revenue"
                /\ t.selectedMetric = "revenue"
                /\ dashboardState'.selectedDepartment = u.selectedDepartment ]_vars

C28_Witness ==
  /\ lastCall.op = "update"
  /\ lastCall.arg = [selectedDepartment |-> "Sales", selectedMetric |-> "growth_rate"]
  /\ Len(stateHistory) = 3
  /\ stateHistory[1].updates = [selectedMetric |-> "customer_count"]
  /\ stateHistory[2].updates = [selectedRegion |-> "Europe", selectedIndustry |-> "all"]
  /\ stateHistory[3].updates = [selectedDepartment |-> "Sales", selectedMetric |-> "revenue"]
  /\ dashboardState.selectedMetric = "revenue" /\ dashboardState.selectedIndustry = "all"
  /\ dashboardState.selectedRegion = "Europe"

\* C26: getFilterOptions gives, for 'departments', 'regions' and
\* 'industries', 'all' followed by each non-empty value of the dimension in
\* the loaded datasets once (departments of the revenue rows, regions of the
\* revenue and the customer rows, industries of the customer rows); for
\* 'timeRange' and 'revenueType' a fixed list; for an unknown type nothing.
C26_FilterOptions ==
  LET data == closure.datasets
      options(t) == getFilterOptions(t, closure.availableFilters)
      Values(rows, column) == {rows[i][column] : i \in 1..Len(rows)} \ {""}
      occurring(t) ==
        CASE t = "departments" -> Values(data.revenue, "department")
          [] t = "regions" -> Values(data.revenue, "region") \cup Values(data.customer, "region")
          [] t = "industries" -> Values(data.customer, "industry")
  IN /\ \A t \in {"departments", "regions", "industries"} :
          /\ options(t)[1] = "all"
          /\ {options(t)[i] : i \in 2..Len(options(t))} = occurring(t)
          /\ Len(options(t)) = 1 + Cardinality(occurring(t))
     /\ options("timeRange") = << "6M", "1Y", "2Y", "All Time" >>
     /\ options("revenueType") = << "subscription", "usage" >>
     /\ options("unknown") = << >>

\* C29: filteredData is the function FilteredData of the datasets and the
\* state of the render; its rows satisfy the selections, the revenue view of
\* a time range other than 'All Time' is the last 6, 12 or 24 of the rows
\* that satisfy the department and region selections, geographic data is
\* passed through, and only loadData and clearData change the datasets.
C29_FilteredView ==
  [][ LET data == closure'.datasets
          state == closure'.dashboardState
          view == closure'.filteredData
          matching == SelectSeq(data.revenue, LAMBDA d :
                        /\ state.selectedDepartment \in {"all", d.department}
                        /\ state.selectedRegion \in {"all", d.region})
          months == CASE state.selectedTimeRange = "6M" -> 6
                      [] state.selectedTimeRange = "1Y" -> 12
                      [] OTHER -> 24
      IN /\ view = FilteredData(data, state)
         /\ state.selectedDepartment # "all" =>
              /\ \A i \in 1..Len(view.revenue) :
                   view.revenue[i].department = state.selectedDepartment
              /\ \A i \in 1..Len(view.performance) :
                   view.performance[i].department = state.selectedDepartment
         /\ state.selectedRegion # "all" =>
              /\ \A i \in 1..Len(view.revenue) : view.revenue[i].region = state.selectedRegion
              /\ \A i \in 1..Len(view.customer) : view.customer[i].region = state.selectedRegion
         /\ state.selectedIndustry # "all" =>
              \A i \in 1..Len(view.customer) :
                view.customer[i].industry = state.selectedIndustry
         /\ IF state.selectedTimeRange # "All Time"
              THEN /\ Len(view.revenue) <= months
                   /\ Len(view.revenue) = IF Len(matching) < months THEN Len(matching)
                                          ELSE months
                   /\ \A i \in 1..Len(view.revenue) :
                        view.revenue[i] = matching[Len(matching) - Len(view.revenue) + i]
              ELSE view.revenue = matching
         /\ view.geographic = data.geographic
         /\ datasets' # datasets => lastCall'.op \in {"loadData", "clearData"} ]_vars

C29_Witness ==
  /\ pending = 0
  /\ Len(closure.datasets.revenue) = 9
  /\ closure.dashboardState.selectedTimeRange = "6M"
  /\ closure.dashboardState.selectedDepartment = "Sales"
  /\ Len(closure.filteredData.revenue) = 6
  /\ closure.filteredData.revenue[1].month = 3
  /\ Len(closure.filteredData.performance) = 1
  /\ Len(closure.filteredData.geographic) = 2

\* C25: an update issued through the chart's accessor shows in the state,
\* the log and the listener notifications of the other accessor of the page.
C25_OneSharedStore ==
  [][ chart'.txCount # chart.txCount =>
        /\ dashboardState' = chart'.dashboardState
        /\ stateHistory' # << >>
        /\ stateHistory'[Len(stateHistory')].updates
             = chart'.stateHistory[Len(chart'.stateHistory)].updates
        /\ Len(invoked') = Len(callbacks)
        /\ \A i \in 1..Len(invoked') : invoked'[i].state = chart'.dashboardState ]_vars

\* C30: after mounting, the chart component comes to rest: from some point
\* on no render is scheduled and the registering effect is not due.
C30_MountQuiesces == <>[](~chart.renderDue /\ ~chart.effectDue)

====
